---- MODULE Spec2Model ----
(***************************************************************************)
(* Model of service.py (LoggingServer): the acceptor, one handler thread   *)
(* per connection, the fixed-window rate limiter guarded by self.lock and  *)
(* the log writer guarded by self.fileLock.                                *)
(*                                                                         *)
(* Text is a sequence of characters, each a string: the character itself   *)
(* or, where the language has no way to write it, its code point.  Time is *)
(* counted in ticks; one second is TicksPerSecond ticks and time.time()    *)
(* never runs backward.                                                    *)
(* The timestamp of a log entry is not modelled.  checkRateLimit reads and *)
(* writes self.clientRates in two steps, and writeLog writes an entry and  *)
(* its line terminator in two steps, so that the locks are what keeps      *)
(* other threads out.  A write to the log file may fail before or after    *)
(* text has reached the file; readline() may raise.                        *)
(* Three scenarios bound the runs: concurrent connections within   *)
(* one clock tick (Spec), one connection under an advancing clock          *)
(* (SpecClock), one connection sending every kind of line (SpecLines).     *)
(* SpecFair has concurrent connections under fair scheduling of the        *)
(* handler threads.                                                        *)
(***************************************************************************)
EXTENDS FiniteSets, Integers, Sequences, TLC

\* ------------------------------------------------------------------ bounds
MaxConns == 2          \* connections the acceptor accepts
MaxLines == 2          \* lines a client sends before it closes its stream
MaxTime == 3           \* last tick of the clock
MaxRateLimit == 2      \* largest rate limit the server is started with
TicksPerSecond == 2    \* clock resolution

\* ------------------------------------------------------- program constants
rateWindow == 1        \* self.rateWindow, in seconds

Window == rateWindow * TicksPerSecond

Conns == 1..MaxConns
NoThread == 0

VARIABLES
    rateLimit,    \* self.rateLimit
    clientRates,  \* self.clientRates: clientId -> <<startTime, count>>
    lock,         \* holder of self.lock, NoThread when free
    fileLock,     \* holder of self.fileLock, NoThread when free
    logFile,      \* content of the log file, a sequence of written chunks
    now,          \* the clock read by time.time()
    pc,           \* position of each handler thread
    connOpen,     \* whether the connection to the client is still held
    inbox,        \* text the peer has sent and readline() has not returned
    received,     \* history: what file.readline() returned to the handler
    clientId,     \* local clientId of handleClient
    category,     \* local category of handleClient
    message,      \* local message of handleClient
    logEntry,     \* argument of the handler's current writeLog call
    seen,         \* locals of the handler's current checkRateLimit call
    calls,        \* history: completed checkRateLimit calls per clientId
    wrote,        \* history: completed writeLog calls per handler
    failed,       \* history: kinds of entry whose writeLog call raised
    nconns,       \* scenario: connections that arrive
    nlines,       \* scenario: lines a client sends before it closes
    vocab,        \* scenario: the lines clients send
    horizon       \* scenario: last tick the clock reaches

scenario == <<rateLimit, nconns, nlines, vocab, horizon>>

vars == <<clientRates, lock, fileLock, logFile, now, pc, connOpen, received,
          clientId, category, message, logEntry, seen, calls, wrote, failed,
          inbox, scenario>>

\* ------------------------------------------------------------ text helpers
\* the characters str.strip() removes: those for which str.isspace() holds
Whitespace ==
    {"\t", "\n", "U+000B", "\f", "\r", "U+001C", "U+001D", "U+001E", "U+001F",
     " ", "U+0085", "U+00A0", "U+1680", "U+2000", "U+2001", "U+2002",
     "U+2003", "U+2004", "U+2005", "U+2006", "U+2007", "U+2008", "U+2009",
     "U+200A", "U+2028", "U+2029", "U+202F", "U+205F", "U+3000"}

\* the characters that end a line of a stream opened with makefile('r')
LineBreaks == {"\n", "\r"}

\* file.readline() on the text s that is waiting in the stream: the text
\* up to the first line break, which is returned as "\n" whether it was
\* "\n", "\r\n" or "\r", and the text that stays in the stream.  Text
\* without a line break is returned as it is when the peer has closed.
ReadLine(s) ==
    LET breaks == {i \in 1..Len(s) : s[i] \in LineBreaks}
    IN  IF breaks = {} THEN [line |-> s, rest |-> <<>>]
        ELSE LET i == CHOOSE k \in breaks : \A j \in breaks : k <= j
                 n == IF s[i] = "\r" /\ i < Len(s) /\ s[i + 1] = "\n"
                      THEN i + 1 ELSE i
             IN  [line |-> SubSeq(s, 1, i - 1) \o <<"\n">>,
                  rest |-> SubSeq(s, n + 1, Len(s))]

\* the text s sent as a line, ended by "\n"
Text(s) == s \o <<"\n">>

RECURSIVE LStrip(_)
LStrip(s) ==
    IF s # <<>> /\ Head(s) \in Whitespace THEN LStrip(Tail(s)) ELSE s

RECURSIVE RStrip(_)
RStrip(s) ==
    IF s # <<>> /\ s[Len(s)] \in Whitespace
    THEN RStrip(SubSeq(s, 1, Len(s) - 1))
    ELSE s

\* str.rstrip('\r\n') on a line: only the line terminator is removed
StripLineEnd(s) ==
    IF s # <<>> /\ s[Len(s)] = "\n"
    THEN IF Len(s) >= 2 /\ s[Len(s) - 1] = "\r"
         THEN SubSeq(s, 1, Len(s) - 2)
         ELSE SubSeq(s, 1, Len(s) - 1)
    ELSE s

\* str.strip()
Strip(s) == RStrip(LStrip(s))

\* str.split('|', 2): the third part keeps the rest of the line
SplitAtMostTwice(s) ==
    LET bars == {i \in 1..Len(s) : s[i] = "|"}
    IN  IF Cardinality(bars) < 2
        THEN IF bars = {} THEN <<s>>
             ELSE LET p == CHOOSE p \in bars : TRUE
                  IN  <<SubSeq(s, 1, p - 1), SubSeq(s, p + 1, Len(s))>>
        ELSE LET p == CHOOSE p \in bars : \A q \in bars : p <= q
                 r == CHOOSE r \in bars \ {p} : \A q \in bars \ {p} : r <= q
             IN  <<SubSeq(s, 1, p - 1), SubSeq(s, p + 1, r - 1),
                   SubSeq(s, r + 1, Len(s))>>

\* str.split('|')
RECURSIVE Split(_)
Split(s) ==
    IF \E i \in 1..Len(s) : s[i] = "|"
    THEN LET i == CHOOSE k \in 1..Len(s) :
                      s[k] = "|" /\ \A j \in 1..(k - 1) : s[j] # "|"
         IN  <<SubSeq(s, 1, i - 1)>> \o Split(SubSeq(s, i + 1, Len(s)))
    ELSE <<s>>

\* the peer address as f"{addr[0]}:{addr[1]}"
AddrId(h) == <<"ip:port", ToString(h)>>

\* ------------------------------------------------------------- the inputs
EndOfStream == <<>>

\* valid messages of two clients
RateLines ==
    { Text(<<"a", "|", "x", "|", "m">>),
      Text(<<" ", "b", " ", "|", " ", "x", " ", "|", " ", "m", " ">>),
      EndOfStream }

\* every kind of text a peer sends: blank lines, too few segments, empty
\* fields, surplus segments, "\r\n" and "\r" as line breaks, whitespace
\* other than blank and tab
InputLines ==
    RateLines \cup
    { Text(<<>>),
      Text(<<" ">>),
      Text(<<"\f">>),
      Text(<<"a", "|", "U+00A0", "|", "m">>),
      Text(<<"a", "|", "x", "|", "m", "\r", "a", "|", "x">>),
      Text(<<"a", "|", "x">>),
      Text(<<"z", "|", " ", "|", "m">>),
      Text(<<"|", "x", "|", "m", "\r">>),
      Text(<<"a", " ", "|", "y", "|", "\t", "h", " ", "|", " ", "e", "|", "s">>) }

\* ------------------------------------------------------------ rate limiter
NoRate == <<>>

NoSeen == [t |-> 0, st |-> NoRate]

\* checkRateLimit with `count <= self.rateLimit`
RateStepCountLe(st, t, limit) ==
    IF st = NoRate
    THEN [set |-> TRUE, st |-> <<t, 1>>, ok |-> TRUE]
    ELSE IF t - st[1] > Window
         THEN [set |-> TRUE, st |-> <<t, 1>>, ok |-> TRUE]
         ELSE IF st[2] <= limit
              THEN [set |-> TRUE, st |-> <<st[1], st[2] + 1>>, ok |-> TRUE]
              ELSE [set |-> FALSE, st |-> st, ok |-> FALSE]

\* checkRateLimit with `elapsed >= self.rateWindow`
RateStepElapsedGe(st, t, limit) ==
    IF st = NoRate
    THEN [set |-> TRUE, st |-> <<t, 1>>, ok |-> TRUE]
    ELSE IF t - st[1] >= Window
         THEN [set |-> TRUE, st |-> <<t, 1>>, ok |-> TRUE]
         ELSE IF st[2] < limit
              THEN [set |-> TRUE, st |-> <<st[1], st[2] + 1>>, ok |-> TRUE]
              ELSE [set |-> FALSE, st |-> st, ok |-> FALSE]

\* checkRateLimit that counts the message before it compares with the limit
RateStepCountsRejected(st, t, limit) ==
    IF st = NoRate
    THEN [set |-> TRUE, st |-> <<t, 1>>, ok |-> TRUE]
    ELSE IF t - st[1] > Window
         THEN [set |-> TRUE, st |-> <<t, 1>>, ok |-> TRUE]
         ELSE [set |-> TRUE, st |-> <<st[1], st[2] + 1>>,
               ok |-> st[2] < limit]

\* checkRateLimit with `elapsed > 0`: the window restarts at every call
\* that comes later than its start
RateStepRestartsAtOnce(st, t, limit) ==
    IF st = NoRate
    THEN [set |-> TRUE, st |-> <<t, 1>>, ok |-> TRUE]
    ELSE IF t - st[1] > 0
         THEN [set |-> TRUE, st |-> <<t, 1>>, ok |-> TRUE]
         ELSE IF st[2] < limit
              THEN [set |-> TRUE, st |-> <<st[1], st[2] + 1>>, ok |-> TRUE]
              ELSE [set |-> FALSE, st |-> st, ok |-> FALSE]

\* checkRateLimit that restarts the window with (currentTime, 0): the call
\* that restarts the window is not counted
RateStepRestartCountsZero(st, t, limit) ==
    IF st = NoRate
    THEN [set |-> TRUE, st |-> <<t, 1>>, ok |-> TRUE]
    ELSE IF t - st[1] > Window
         THEN [set |-> TRUE, st |-> <<t, 0>>, ok |-> TRUE]
         ELSE IF st[2] < limit
              THEN [set |-> TRUE, st |-> <<st[1], st[2] + 1>>, ok |-> TRUE]
              ELSE [set |-> FALSE, st |-> st, ok |-> FALSE]

\* the decision of checkRateLimit on the state st it read at time t:
\* whether it assigns self.clientRates[clientId], the state it assigns and
\* the value it returns
RateStep(st, t, limit) ==
    IF st = NoRate
    THEN [set |-> TRUE, st |-> <<t, 1>>, ok |-> TRUE]
    ELSE IF t - st[1] > Window
         THEN [set |-> TRUE, st |-> <<t, 1>>, ok |-> TRUE]
         ELSE IF st[2] < limit
              THEN [set |-> TRUE, st |-> <<st[1], st[2] + 1>>, ok |-> TRUE]
              ELSE [set |-> FALSE, st |-> st, ok |-> FALSE]

\* ------------------------------------------------------------- log entries
NoEntry == [conn |-> 0, kind |-> "NONE", clientId |-> <<>>,
            category |-> <<>>, message |-> <<>>, src |-> <<>>]

\* the CONNECTED and DISCONNECTED entries
Marker(h, k, id) ==
    [conn |-> h, kind |-> k, clientId |-> id, category |-> <<k>>,
     message |-> <<>>, src |-> <<>>]

\* the entry of a message; src remembers the line it was parsed from
Record(h, id, cat, msg, raw) ==
    [conn |-> h, kind |-> "MESSAGE", clientId |-> id, category |-> cat,
     message |-> msg, src |-> raw]

\* the line terminator that ends an entry in the file
Newline(h) == [conn |-> h, kind |-> "NEWLINE"]

\* ------------------------------------------------------------------- Init
\* the state after LoggingServer(port, logFile, rateLimit), before start()
InitWith(n, q, v, hz) ==
    /\ rateLimit \in 0..MaxRateLimit
    /\ nconns = n
    /\ nlines = q
    /\ vocab = v
    /\ horizon = hz
    /\ clientRates = <<>>
    /\ lock = NoThread
    /\ fileLock = NoThread
    /\ logFile = <<>>
    /\ now = 0
    /\ pc = [h \in Conns |-> "idle"]
    /\ connOpen = [h \in Conns |-> FALSE]
    /\ inbox = [h \in Conns |-> <<>>]
    /\ received = [h \in Conns |-> <<>>]
    /\ clientId = [h \in Conns |-> <<>>]
    /\ category = [h \in Conns |-> <<>>]
    /\ message = [h \in Conns |-> <<>>]
    /\ logEntry = [h \in Conns |-> NoEntry]
    /\ seen = [h \in Conns |-> NoSeen]
    /\ calls = <<>>
    /\ wrote = [h \in Conns |-> 0]
    /\ failed = [h \in Conns |-> {}]

\* concurrent connections whose messages all fall into one clock tick
Init == InitWith(MaxConns, MaxLines, RateLines, 0)

\* one connection that sends messages while the clock advances: enough of
\* them to fill a window, overflow it and start the next one
InitClock == InitWith(1, MaxRateLimit + 2, RateLines, MaxTime)

\* one connection that sends every kind of line
InitLines == InitWith(1, MaxLines, InputLines, 0)

\* concurrent connections that send at most one message before they close
\* their stream, or stay silent
InitFair == InitWith(MaxConns, 1, RateLines, 0)

\* ------------------------------------------------------------------ locks
\* checkRateLimit without `with self.lock`
LockIgnored == TRUE

\* threading.Lock: `with self.lock` enters only when nobody holds the lock
LockFree == lock = NoThread

\* `with self.fileLock` enters only when nobody holds the lock
FileLockFree == fileLock = NoThread

\* ---------------------------------------------------------------- helpers
Last(s) == s[Len(s)]

\* what the client of connection h can send next; nothing more is needed
\* while text is waiting in the stream
Sendable(h) ==
    IF inbox[h] # <<>> THEN {<<>>}
    ELSE IF Len(received[h]) < nlines THEN vocab
    ELSE {EndOfStream}

\* the connection of handler h is released
Released(h) == [connOpen EXCEPT ![h] = FALSE]

\* `with conn.makefile('r') as file`: leaving the with blocks closes the
\* file object as well, which releases the connection before the finally
\* clause writes the DISCONNECTED entry
FinallyFileClosed(h) ==
    /\ connOpen' = Released(h)
    /\ logEntry' = [logEntry EXCEPT ![h] =
                       Marker(h, "DISCONNECTED", clientId[h])]
    /\ pc' = [pc EXCEPT ![h] = "writeLog"]

\* leaving `with conn:` calls conn.close(), which only marks the socket
\* object closed: the file object of conn.makefile('r') is never closed and
\* keeps the connection open for as long as the local `file` lives, that
\* is until handleClient returns.  The finally clause formats the
\* DISCONNECTED entry from the local clientId and calls writeLog.
Finally(h) ==
    /\ connOpen' = connOpen
    /\ logEntry' = [logEntry EXCEPT ![h] =
                       Marker(h, "DISCONNECTED", clientId[h])]
    /\ pc' = [pc EXCEPT ![h] = "writeLog"]

\* an exception leaves writeLog: raised inside the try block it is caught
\* (line 111) and the finally clause runs; raised by the call in the finally
\* clause it leaves handleClient, and the thread is about to end
Raised(h) ==
    IF logEntry[h].kind = "DISCONNECTED"
    THEN /\ pc' = [pc EXCEPT ![h] = "returning"]
         /\ logEntry' = [logEntry EXCEPT ![h] = NoEntry]
         /\ UNCHANGED connOpen
    ELSE Finally(h)

History(c) == IF c \in DOMAIN calls THEN calls[c] ELSE <<>>

\* a line with too few segments ends the loop as an empty line does
EndsLoopOnShort(line) == line = <<>> \/ Len(Split(line)) < 3

\* `if not line: break`
EndsLoop(line) == line = <<>>

\* `if len(parts) < 3: continue`
TooFew(parts) == Len(parts) < 3

\* `if not clientId: continue`: category and message are not examined
MissingId(id, cat, msg) == id = <<>>

\* `if not clientId or not category or not message: continue`
Missing(id, cat, msg) == id = <<>> \/ cat = <<>> \/ msg = <<>>

\* checkRateLimit called with the connection's address
RateKeyAddr(h) == AddrId(h)

\* the key of self.clientRates that checkRateLimit(clientId) works on
RateKey(h) == clientId[h]

\* ----------------------------------------------------------------- actions
\* start(): accept a connection and start its handler thread, which derives
\* its identity from the peer address and calls writeLog(connectionLog)
start(h) ==
    /\ pc[h] = "idle"
    /\ h <= nconns
    /\ \A g \in 1..(h - 1) : pc[g] # "idle"
    /\ connOpen' = [connOpen EXCEPT ![h] = TRUE]
    /\ clientId' = [clientId EXCEPT ![h] = AddrId(h)]
    /\ logEntry' = [logEntry EXCEPT ![h] = Marker(h, "CONNECTED", AddrId(h))]
    /\ pc' = [pc EXCEPT ![h] = "writeLog"]
    /\ UNCHANGED <<clientRates, lock, fileLock, logFile, now, received,
                   category, message, seen, calls, wrote, failed,
                   inbox, scenario>>

\* writeLog with open(self.logFile, 'w'): opening the file truncates it
writeLogEnterTruncates(h) ==
    /\ pc[h] = "writeLog"
    /\ FileLockFree
    /\ fileLock' = h
    /\ logFile' = <<logEntry[h]>>
    /\ pc' = [pc EXCEPT ![h] = "writing"]
    /\ UNCHANGED <<clientRates, lock, now, connOpen, received, clientId,
                   category, message, logEntry, seen, calls, wrote, failed,
                   inbox, scenario>>

\* writeLog(): take the file lock, open the file and write the entry text
writeLogEnter(h) ==
    /\ pc[h] = "writeLog"
    /\ FileLockFree
    /\ fileLock' = h
    /\ logFile' = Append(logFile, logEntry[h])
    /\ pc' = [pc EXCEPT ![h] = "writing"]
    /\ UNCHANGED <<clientRates, lock, now, connOpen, received, clientId,
                   category, message, logEntry, seen, calls, wrote, failed,
                   inbox, scenario>>

\* writeLog with self.fileLock.acquire() and no release: the handler goes
\* back to reading with the file lock held
writeLogExitHoldsLock(h) ==
    /\ pc[h] = "writing"
    /\ logFile' = Append(logFile, Newline(h))
    /\ fileLock' = fileLock
    /\ wrote' = [wrote EXCEPT ![h] = @ + 1]
    /\ logEntry' = [logEntry EXCEPT ![h] = NoEntry]
    /\ pc' = [pc EXCEPT ![h] =
                IF logEntry[h].kind = "DISCONNECTED" THEN "returning"
                ELSE "read"]
    /\ UNCHANGED <<clientRates, lock, now, connOpen, received, clientId,
                   category, message, seen, calls, failed, inbox, scenario>>

\* writeLog(): write the line terminator, close the file, release the lock
\* and return to handleClient: to the read loop, or to the end of the
\* finally clause
writeLogExit(h) ==
    /\ pc[h] = "writing"
    /\ logFile' = Append(logFile, Newline(h))
    /\ fileLock' = NoThread
    /\ wrote' = [wrote EXCEPT ![h] = @ + 1]
    /\ logEntry' = [logEntry EXCEPT ![h] = NoEntry]
    /\ pc' = [pc EXCEPT ![h] =
                IF logEntry[h].kind = "DISCONNECTED" THEN "returning"
                ELSE "read"]
    /\ UNCHANGED <<clientRates, lock, now, connOpen, received, clientId,
                   category, message, seen, calls, failed, inbox, scenario>>

\* writeLog with acquire() and release() instead of `with self.fileLock`:
\* an exception raised by open() skips the release
writeLogFailKeepsLock(h) ==
    /\ pc[h] = "writeLog"
    /\ FileLockFree
    /\ fileLock' = h
    /\ failed' = [failed EXCEPT ![h] = @ \cup {logEntry[h].kind}]
    /\ Raised(h)
    /\ UNCHANGED <<clientRates, lock, logFile, now, received,
                   clientId, category, message, seen, calls, wrote,
                   inbox, scenario>>

\* writeLog(): open() raises inside `with self.fileLock`; nothing is
\* written, the lock is released and the exception reaches handleClient
writeLogFail(h) ==
    /\ pc[h] = "writeLog"
    /\ FileLockFree
    /\ failed' = [failed EXCEPT ![h] = @ \cup {logEntry[h].kind}]
    /\ Raised(h)
    /\ UNCHANGED <<clientRates, lock, fileLock, logFile, now, received,
                   clientId, category, message, seen, calls, wrote,
                   inbox, scenario>>

\* writeLog(): the write raises when the file is flushed and closed, after
\* part of the text has reached the file: what is in the file stays there
\* without its line terminator, the lock is released and the exception
\* reaches handleClient
writeLogFailFlush(h) ==
    /\ pc[h] = "writing"
    /\ fileLock' = NoThread
    /\ failed' = [failed EXCEPT ![h] = @ \cup {logEntry[h].kind}]
    /\ Raised(h)
    /\ UNCHANGED <<clientRates, lock, logFile, now, received,
                   clientId, category, message, seen, calls, wrote, inbox,
                   scenario>>

\* handleClient() returns, or the exception of the finally clause ends it:
\* the thread ends, the local `file` is dropped and with it the connection
handleClientReturn(h) ==
    /\ pc[h] = "returning"
    /\ pc' = [pc EXCEPT ![h] = "done"]
    /\ connOpen' = Released(h)
    /\ UNCHANGED <<clientRates, lock, fileLock, logFile, now, received,
                   clientId, category, message, logEntry, seen, calls, wrote,
                   failed, inbox, scenario>>

\* handleClient(): one pass of the read loop up to the rate-limit call:
\* readline() returns the next line of what the peer has sent.
\* category and message are kept only while a later statement reads them.
handleClientRead(h) ==
    /\ pc[h] = "read"
    /\ \E sent \in Sendable(h) :
         LET got == ReadLine(inbox[h] \o sent)
             raw == got.line
             line == Strip(raw)
             parts == Split(line)
             id == Strip(parts[1])
             cat == Strip(parts[2])
             msg == Strip(parts[3])
         IN  /\ received' = [received EXCEPT ![h] = Append(@, raw)]
             /\ inbox' = [inbox EXCEPT ![h] = got.rest]
             /\ IF EndsLoop(line)
                THEN /\ Finally(h)
                     /\ UNCHANGED <<clientId, category, message>>
                ELSE IF TooFew(parts)
                THEN UNCHANGED <<pc, connOpen, logEntry, clientId, category,
                                 message>>
                ELSE IF Missing(id, cat, msg)
                THEN /\ clientId' = [clientId EXCEPT ![h] = id]
                     /\ UNCHANGED <<pc, connOpen, logEntry, category, message>>
                ELSE /\ clientId' = [clientId EXCEPT ![h] = id]
                     /\ category' = [category EXCEPT ![h] = cat]
                     /\ message' = [message EXCEPT ![h] = msg]
                     /\ pc' = [pc EXCEPT ![h] = "checkRateLimit"]
                     /\ UNCHANGED <<connOpen, logEntry>>
    /\ UNCHANGED <<clientRates, lock, fileLock, logFile, now, seen, calls,
                   wrote, failed, scenario>>

\* the DISCONNECTED entry written after the loop instead of in a finally
\* clause: an exception leaves handleClient without it
handleClientReadErrorSkipsFinally(h) ==
    /\ pc[h] = "read"
    /\ connOpen' = Released(h)
    /\ pc' = [pc EXCEPT ![h] = "done"]
    /\ UNCHANGED <<clientRates, lock, fileLock, logFile, now, received,
                   clientId, category, message, logEntry, seen, calls, wrote,
                   failed, inbox, scenario>>

\* handleClient(): file.readline() raises (connection reset, undecodable
\* bytes); the except clause reports it and the finally clause runs
handleClientReadError(h) ==
    /\ pc[h] = "read"
    /\ Finally(h)
    /\ UNCHANGED <<clientRates, lock, fileLock, logFile, now, received,
                   clientId, category, message, seen, calls, wrote, failed,
                   inbox, scenario>>

\* checkRateLimit(): take the lock, read the clock, which has not run
\* backward since it was last read, and read the client's state
checkRateLimitEnter(h) ==
    /\ pc[h] = "checkRateLimit"
    /\ LockFree
    /\ lock' = h
    /\ now' \in now..horizon
    /\ seen' = [seen EXCEPT ![h] =
                   [t |-> now',
                    st |-> IF RateKey(h) \in DOMAIN clientRates
                           THEN clientRates[RateKey(h)]
                           ELSE NoRate]]
    /\ pc' = [pc EXCEPT ![h] = "checking"]
    /\ UNCHANGED <<clientRates, fileLock, logFile, connOpen, received,
                   clientId, category, message, logEntry, calls, wrote, failed,
                   inbox, scenario>>

\* writeLog called from inside `with self.lock`: the rate-limiter lock is
\* still held when an accepted message is written
checkRateLimitExitKeepsLock(h) ==
    /\ pc[h] = "checking"
    /\ LET c == clientId[h]
           r == RateStep(seen[h].st, seen[h].t, rateLimit)
       IN  /\ clientRates' = IF r.set
                             THEN (RateKey(h) :> r.st) @@ clientRates
                             ELSE clientRates
           /\ calls' = (c :> Append(History(c), [t |-> seen[h].t, ok |-> r.ok]))
                           @@ calls
           /\ IF r.ok
              THEN /\ logEntry' = [logEntry EXCEPT ![h] =
                                      Record(h, c, category[h], message[h],
                                             Last(received[h]))]
                   /\ pc' = [pc EXCEPT ![h] = "writeLog"]
                   /\ lock' = lock
              ELSE /\ pc' = [pc EXCEPT ![h] = "read"]
                   /\ lock' = NoThread
                   /\ UNCHANGED logEntry
    /\ seen' = [seen EXCEPT ![h] = NoSeen]
    /\ category' = [category EXCEPT ![h] = <<>>]
    /\ message' = [message EXCEPT ![h] = <<>>]
    /\ UNCHANGED <<fileLock, logFile, now, connOpen, received, clientId,
                   wrote, failed, inbox, scenario>>

\* checkRateLimit(): decide, store the new state, release the lock and
\* return; handleClient then formats the entry and calls writeLog, or
\* drops the message
checkRateLimitExit(h) ==
    /\ pc[h] = "checking"
    /\ LET c == clientId[h]
           r == RateStep(seen[h].st, seen[h].t, rateLimit)
       IN  /\ clientRates' = IF r.set
                             THEN (RateKey(h) :> r.st) @@ clientRates
                             ELSE clientRates
           /\ calls' = (c :> Append(History(c), [t |-> seen[h].t, ok |-> r.ok]))
                           @@ calls
           /\ IF r.ok
              THEN /\ logEntry' = [logEntry EXCEPT ![h] =
                                      Record(h, c, category[h], message[h],
                                             Last(received[h]))]
                   /\ pc' = [pc EXCEPT ![h] = "writeLog"]
              ELSE /\ pc' = [pc EXCEPT ![h] = "read"]
                   /\ UNCHANGED logEntry
    /\ lock' = NoThread
    /\ seen' = [seen EXCEPT ![h] = NoSeen]
    /\ category' = [category EXCEPT ![h] = <<>>]
    /\ message' = [message EXCEPT ![h] = <<>>]
    /\ UNCHANGED <<fileLock, logFile, now, connOpen, received, clientId,
                   wrote, failed, inbox, scenario>>

Next ==
    \/ \E h \in Conns : start(h)
    \/ \E h \in Conns : writeLogEnter(h)
    \/ \E h \in Conns : writeLogExit(h)
    \/ \E h \in Conns : writeLogFail(h)
    \/ \E h \in Conns : writeLogFailFlush(h)
    \/ \E h \in Conns : handleClientReturn(h)
    \/ \E h \in Conns : handleClientRead(h)
    \/ \E h \in Conns : handleClientReadError(h)
    \/ \E h \in Conns : checkRateLimitEnter(h)
    \/ \E h \in Conns : checkRateLimitExit(h)

\* concurrent connections, messages within one clock tick
Spec == Init /\ [][Next]_vars

\* one connection, the clock advances
SpecClock == InitClock /\ [][Next]_vars

\* one connection, every kind of line
SpecLines == InitLines /\ [][Next]_vars

\* thread scheduling: a handler thread that can run is eventually run.  It
\* enters a with-block whose lock stays free, it leaves a with-block it is
\* in, and it returns from handleClient.  Nothing obliges a client to send
\* a line, readline() to raise, a write to fail or a connection to arrive.
Fairness ==
    \A h \in Conns :
      /\ WF_vars(writeLogEnter(h))
      /\ WF_vars(writeLogExit(h))
      /\ WF_vars(checkRateLimitEnter(h))
      /\ WF_vars(checkRateLimitExit(h))
      /\ WF_vars(handleClientReturn(h))

\* concurrent connections under fair thread scheduling
SpecFair == InitFair /\ [][Next]_vars /\ Fairness

TypeOK ==
    /\ rateLimit \in 0..MaxRateLimit
    /\ lock \in {NoThread} \cup Conns
    /\ fileLock \in {NoThread} \cup Conns
    /\ now \in 0..MaxTime
    /\ \A h \in Conns : pc[h] \in {"idle", "writeLog", "writing", "read",
                                   "checkRateLimit", "checking", "returning",
                                   "done"}

\* ================================================================== claims
\* ---- what the claims speak of, restated without the model's operators ----
\* index of the call that started the window the j-th call of a history
\* falls into: the first call, or a call more than Window after the start
\* of the window before it
RECURSIVE WindowOf(_, _)
WindowOf(hist, j) ==
    IF j = 1 THEN 1
    ELSE LET s == WindowOf(hist, j - 1)
         IN  IF hist[j].t - hist[s].t > Window THEN j ELSE s

\* position of the j-th call within its window
PosInWindow(hist, j) == j - WindowOf(hist, j) + 1

\* calls accepted in the window the last call of the history falls into
AcceptedInWindow(hist) ==
    Cardinality({j \in 1..Len(hist) :
                    hist[j].ok /\ WindowOf(hist, j) = WindowOf(hist, Len(hist))})

\* the step completes a checkRateLimit call for client c
Completes(c) ==
    /\ c \in DOMAIN calls'
    /\ Len(calls'[c]) = Len(History(c)) + 1

\* C1 (as claimed): any L calls of one client within an interval shorter
\* than W are all accepted, and an (L+1)-th call within such an interval is
\* rejected.
C1_AnyInterval ==
    rateLimit >= 1 =>
      \A c \in DOMAIN calls :
        \A i, j \in 1..Len(calls[c]) :
          (i <= j /\ calls[c][j].t - calls[c][i].t < Window) =>
            /\ (j - i + 1 <= rateLimit => calls[c][j].ok)
            /\ (j - i + 1 = rateLimit + 1 => ~calls[c][j].ok)

\* C1 (amended): for a positive limit L, counted from the call that starts
\* a client's window, the first L calls of the window are accepted and
\* every further call of that window is rejected.
C1_FirstLOfWindow ==
    rateLimit >= 1 =>
      \A c \in DOMAIN calls :
        \A j \in 1..Len(calls[c]) :
          calls[c][j].ok <=> PosInWindow(calls[c], j) <= rateLimit

\* a client made L + 1 calls in one window for L = 2: two accepted, the
\* third rejected
C1_Witness ==
    /\ rateLimit = 2
    /\ \E c \in DOMAIN calls :
         /\ Len(calls[c]) >= 3
         /\ WindowOf(calls[c], 3) = 1
         /\ calls[c][1].ok /\ calls[c][2].ok /\ ~calls[c][3].ok

\* C2: a call more than W after the client's window start is accepted and
\* sets the state to (now, 1) whatever the count was; a call at most W
\* after the window start keeps the window start.
C2_RestartAfterWindow ==
    [][\A c \in DOMAIN clientRates :
         Completes(c) =>
           LET call == Last(calls'[c])
               st == clientRates[c]
           IN  /\ call.t - st[1] > Window =>
                     call.ok /\ clientRates'[c] = <<call.t, 1>>
               /\ call.t - st[1] <= Window =>
                     clientRates'[c][1] = st[1]]_vars

\* a client that was rejected at the limit is accepted once the window has
\* elapsed, and its state is (now, 1)
C2_Witness ==
    /\ rateLimit >= 1
    /\ \E c \in DOMAIN calls :
         LET n == Len(calls[c])
         IN  /\ n >= 3
             /\ ~calls[c][n - 1].ok
             /\ calls[c][n].ok
             /\ calls[c][n].t > Window
             /\ clientRates[c] = <<calls[c][n].t, 1>>

\* C3: a checkRateLimit(c) call leaves the state of every other client as
\* it was, creates no state for another client, and rejects only when c's
\* own window holds the limit: another client's saturation rejects nothing.
C3_Independent ==
    [][\A c \in DOMAIN calls' :
         Completes(c) =>
           /\ \A d \in DOMAIN clientRates' :
                d # c => d \in DOMAIN clientRates
                         /\ clientRates'[d] = clientRates[d]
           /\ \A d \in DOMAIN clientRates : d \in DOMAIN clientRates'
           /\ ~Last(calls'[c]).ok =>
                /\ c \in DOMAIN clientRates
                /\ clientRates[c][2] >= rateLimit
                /\ Last(calls'[c]).t - clientRates[c][1] <= Window]_vars

\* one client is at its limit and was rejected, another client was then
\* accepted in the same tick
C3_Witness ==
    /\ rateLimit >= 1
    /\ \E c, d \in DOMAIN calls :
         /\ c # d
         /\ ~Last(calls[c]).ok
         /\ Last(calls[d]).ok
         /\ Last(calls[d]).t = Last(calls[c]).t
         /\ now = Last(calls[d]).t
         /\ clientRates[c][2] = rateLimit

\* C4: no update of a client's state is lost: for L >= 1 the stored count
\* is the number of calls accepted since the window start, and it lies
\* between 1 and L; at most one thread is inside checkRateLimit.
C4_Atomic ==
    /\ Cardinality({h \in Conns : pc[h] = "checking"}) <= 1
    /\ \A h \in Conns : pc[h] = "checking" <=> lock = h
    /\ rateLimit >= 1 =>
         \A c \in DOMAIN clientRates :
           /\ clientRates[c][2] = AcceptedInWindow(calls[c])
           /\ 1 <= clientRates[c][2]
           /\ clientRates[c][2] <= rateLimit

\* two connections report the same client id; one is inside checkRateLimit
\* while the other waits for the lock, and the client is already at its limit
C4_Witness ==
    /\ rateLimit >= 1
    /\ pc[1] = "checking" /\ pc[2] = "checkRateLimit"
    /\ clientId[1] = clientId[2]
    /\ clientId[1] \in DOMAIN clientRates
    /\ clientRates[clientId[1]][2] = rateLimit

\* ---- the log and the lines, restated without the model's operators ----
\* places of the log that hold an entry of kind k written by connection h
EntriesOf(h, k) ==
    {i \in 1..Len(logFile) : logFile[i].kind = k /\ logFile[i].conn = h}

\* those of them that are followed by their line terminator
LinesOf(h, k) ==
    {i \in EntriesOf(h, k) :
        i < Len(logFile) /\ logFile[i + 1] = [conn |-> h, kind |-> "NEWLINE"]}

\* positions of the delimiter in a line
Bars(raw) == {i \in 1..Len(raw) : raw[i] = "|"}

\* position of the n-th delimiter, 0 before the first segment and
\* Len + 1 after the last one
BarAt(raw, n) ==
    IF n = 0 THEN 0
    ELSE IF n > Cardinality(Bars(raw)) THEN Len(raw) + 1
    ELSE CHOOSE p \in Bars(raw) :
             Cardinality({q \in Bars(raw) : q < p}) = n - 1

\* a text without the whitespace around it
TrimRef(s) ==
    LET solid == {i \in 1..Len(s) : s[i] \notin Whitespace}
    IN  IF solid = {} THEN <<>>
        ELSE SubSeq(s, CHOOSE i \in solid : \A j \in solid : i <= j,
                       CHOOSE i \in solid : \A j \in solid : j <= i)

\* the n-th segment of a line, trimmed
FieldRef(raw, n) ==
    TrimRef(SubSeq(raw, BarAt(raw, n - 1) + 1, BarAt(raw, n) - 1))

\* a line that reaches the rate-limit step
ValidRef(raw) ==
    /\ Cardinality(Bars(raw)) >= 2
    /\ \A n \in 1..3 : FieldRef(raw, n) # <<>>

\* the step in which handler h receives a line
Receives(h) == Len(received'[h]) = Len(received[h]) + 1

\* the step leaves the connection open and the handler reading, and
\* writes nothing
DroppedBy(h) ==
    /\ pc'[h] = "read"
    /\ connOpen'[h]
    /\ logFile' = logFile
    /\ logEntry'[h] = NoEntry

\* C5 (as claimed): a connection whose handler has returned has exactly one
\* CONNECTED and exactly one DISCONNECTED entry, in that order.
C5_ExactlyOnce ==
    \A h \in Conns :
      pc[h] = "done" =>
        /\ Cardinality(EntriesOf(h, "CONNECTED")) = 1
        /\ Cardinality(EntriesOf(h, "DISCONNECTED")) = 1
        /\ \A i \in EntriesOf(h, "CONNECTED") :
             \A j \in EntriesOf(h, "DISCONNECTED") : i < j

\* C5 (amended): a connection never has more than one CONNECTED or more
\* than one DISCONNECTED entry, CONNECTED comes first, and once the handler
\* has returned each of the two is in the log as a complete line exactly
\* once unless its own writeLog call failed, which leaves nothing or an
\* entry without line terminator, however many lines were read and however
\* the loop ended.
C5_OnceUnlessWriteFails ==
    \A h \in Conns :
      /\ Cardinality(EntriesOf(h, "CONNECTED")) <= 1
      /\ Cardinality(EntriesOf(h, "DISCONNECTED")) <= 1
      /\ \A i \in EntriesOf(h, "CONNECTED") :
           \A j \in EntriesOf(h, "DISCONNECTED") : i < j
      /\ pc[h] = "done" =>
           /\ Cardinality(LinesOf(h, "CONNECTED")) =
                 IF "CONNECTED" \in failed[h] THEN 0 ELSE 1
           /\ Cardinality(LinesOf(h, "DISCONNECTED")) =
                 IF "DISCONNECTED" \in failed[h] THEN 0 ELSE 1

\* a handler logged a message, then left the loop on a read error (its last
\* line does not end the loop) and returned with both entries written
C5_Witness ==
    \E h \in Conns :
      /\ pc[h] = "done"
      /\ failed[h] = {}
      /\ EntriesOf(h, "MESSAGE") # {}
      /\ TrimRef(Last(received[h])) # <<>>
      /\ Cardinality(EntriesOf(h, "CONNECTED")) = 1
      /\ Cardinality(EntriesOf(h, "DISCONNECTED")) = 1

\* C6 (as claimed): the log is a sequence of complete lines, each the
\* entry of one writeLog call followed by that call's line terminator, with
\* nothing of another call in between; only the call in progress has an
\* entry without terminator; every connection has as many lines as
\* completed writeLog calls.
C6_Serialized ==
    /\ \A i \in 1..Len(logFile) :
         IF i % 2 = 1
         THEN logFile[i].kind # "NEWLINE"
         ELSE /\ logFile[i].kind = "NEWLINE"
              /\ logFile[i].conn = logFile[i - 1].conn
    /\ Len(logFile) % 2 = 1 =>
         /\ fileLock = logFile[Len(logFile)].conn
         /\ pc[fileLock] = "writing"
    /\ \A h \in Conns : Cardinality(EntriesOf(h, "NEWLINE")) = wrote[h]
    /\ \A h \in Conns :
         wrote[h] = Cardinality({i \in 1..Len(logFile) :
                                    /\ i % 2 = 0
                                    /\ logFile[i - 1].conn = h
                                    /\ logFile[i - 1].kind # "NEWLINE"})

\* C7 (as claimed): the DISCONNECTED entry names the clientId of the last
\* line of the connection that reached the rate-limit step, or the peer
\* address when no line did.
C7_DisconnectIdentity ==
    \A i \in 1..Len(logFile) :
      logFile[i].kind = "DISCONNECTED" =>
        LET got == received[logFile[i].conn]
            reached == {k \in 1..Len(got) : ValidRef(got[k])}
        IN  logFile[i].clientId =
              IF reached = {} THEN AddrId(logFile[i].conn)
              ELSE FieldRef(got[CHOOSE k \in reached :
                                    \A m \in reached : m <= k], 1)

\* C8 (as claimed): a received line that is not empty and has fewer than 3
\* segments is dropped, the connection stays open and the handler keeps
\* reading; a valid line goes to the rate-limit step whatever came before.
C8_ShortLineDropped ==
    [][\A h \in Conns :
         Receives(h) =>
           LET raw == Last(received'[h])
           IN  /\ (raw # EndOfStream /\ raw # Text(<<>>)
                   /\ Cardinality(Bars(raw)) < 2) => DroppedBy(h)
               /\ ValidRef(raw) => pc'[h] = "checkRateLimit"]_vars

\* C8 (amended): a received line that is not empty after trimming
\* whitespace and has fewer than 3 segments is dropped, the connection
\* stays open and the handler keeps reading; a valid line goes to the
\* rate-limit step whatever came before.
C8_TrimmedShortLineDropped ==
    [][\A h \in Conns :
         Receives(h) =>
           LET raw == Last(received'[h])
           IN  /\ (TrimRef(raw) # <<>> /\ Cardinality(Bars(raw)) < 2)
                     => DroppedBy(h)
               /\ ValidRef(raw) => pc'[h] = "checkRateLimit"]_vars

\* a connection sent a line of two segments and then a valid line, and the
\* valid line is in the log
C8_Witness ==
    \E h \in Conns :
      /\ Len(received[h]) >= 2
      /\ TrimRef(received[h][1]) # <<>>
      /\ Cardinality(Bars(received[h][1])) < 2
      /\ ValidRef(received[h][2])
      /\ \E i \in EntriesOf(h, "MESSAGE") : logFile[i].src = received[h][2]

\* C9: a rejected message changes no client's rate state and writes
\* nothing; its connection stays open and its handler reads the next line.
C9_RejectChangesNothing ==
    [][\A c \in DOMAIN calls' :
         (Completes(c) /\ ~Last(calls'[c]).ok) =>
           /\ clientRates' = clientRates
           /\ \A h \in Conns : pc'[h] # pc[h] => DroppedBy(h)]_vars

\* a message was rejected and the same connection is reading its next line
C9_Witness ==
    \E c \in DOMAIN calls :
      /\ ~Last(calls[c]).ok
      /\ pc[1] = "read" /\ connOpen[1]
      /\ Len(received[1]) < nlines
      /\ c \in DOMAIN clientRates

\* C10: a logged message carries the trimmed first, second and third
\* segment of its line and nothing of what follows the third segment.
C10_FirstThreeSegments ==
    \A i \in 1..Len(logFile) :
      logFile[i].kind = "MESSAGE" =>
        /\ Cardinality(Bars(logFile[i].src)) >= 2
        /\ logFile[i].clientId = FieldRef(logFile[i].src, 1)
        /\ logFile[i].category = FieldRef(logFile[i].src, 2)
        /\ logFile[i].message = FieldRef(logFile[i].src, 3)

\* a line of five segments was logged with its third segment as message
C10_Witness ==
    \E i \in 1..Len(logFile) :
      /\ logFile[i].kind = "MESSAGE"
      /\ Cardinality(Bars(logFile[i].src)) = 4
      /\ logFile[i].message = <<"h">>

\* ---- who holds a lock and who waits for one ----
\* handlers that hold the rate-limiter lock or the file lock
Holders == {h \in Conns : lock = h \/ fileLock = h}

\* handlers blocked in `with self.lock` or `with self.fileLock`
Blocked ==
    {h \in Conns : \/ pc[h] = "checkRateLimit" /\ lock # NoThread
                   \/ pc[h] = "writeLog" /\ fileLock # NoThread}

\* C11: no thread holds the rate-limiter lock and the file lock at the
\* same time, a thread that holds a lock waits for no lock, and the holder
\* of a lock can always take the step that releases it: no state is a
\* deadlock among handlers waiting on the two locks.
C11_NeverNested ==
    /\ \A h \in Conns : ~(lock = h /\ fileLock = h)
    /\ Holders \cap Blocked = {}
    /\ lock # NoThread => ENABLED checkRateLimitExit(lock)
    /\ fileLock # NoThread => ENABLED writeLogExit(fileLock)
    /\ Blocked # {} => Holders # {}

\* one handler holds the rate-limiter lock while the other holds the file
\* lock in the middle of a message entry
C11_Witness ==
    /\ lock = 1 /\ fileLock = 2
    /\ pc[1] = "checking" /\ pc[2] = "writing"
    /\ logFile[Len(logFile)].kind = "MESSAGE"

\* C12: a writeLog call that fails leaves the file lock free, writes
\* nothing, changes no rate-limiter state and moves no other handler; all
\* the failing handler still does is write its DISCONNECTED entry and
\* return: after a failure it receives no line and makes no rate check.
\* Other handlers that wait for the file lock can take it.
C12_WriteFailureContained ==
    [][\A h \in Conns :
         /\ failed'[h] # failed[h] =>
              /\ fileLock' = NoThread
              /\ logFile' = logFile
              /\ clientRates' = clientRates
              /\ calls' = calls
              /\ lock' = lock
              /\ \A g \in Conns \ {h} :
                   /\ pc'[g] = pc[g]
                   /\ connOpen'[g] = connOpen[g]
                   /\ failed'[g] = failed[g]
              /\ \/ pc'[h] = "returning"
                 \/ /\ pc'[h] = "writeLog"
                    /\ logEntry'[h].kind = "DISCONNECTED"
         /\ failed[h] # {} =>
              /\ received'[h] = received[h]
              /\ pc'[h] \in {"writeLog", "writing", "returning", "done"}
              /\ pc'[h] \in {"writeLog", "writing"}
                    => logEntry'[h].kind = "DISCONNECTED"]_vars

\* the CONNECTED entry of connection 1 could not be written; its handler
\* wrote DISCONNECTED, and after that connection 2 had a message accepted
\* and logged
C12_Witness ==
    /\ "CONNECTED" \in failed[1]
    /\ failed[2] = {}
    /\ \E i, j \in 1..Len(logFile) :
         /\ i < j
         /\ logFile[i].conn = 1 /\ logFile[i].kind = "DISCONNECTED"
         /\ logFile[j].conn = 2 /\ logFile[j].kind = "MESSAGE"
    /\ clientRates # <<>>

\* the log holds the complete DISCONNECTED line of connection h
DisconnectLogged(h) ==
    \E i \in EntriesOf(h, "DISCONNECTED") :
      i < Len(logFile) /\ logFile[i + 1].kind = "NEWLINE"

\* C13 (as claimed): on every exit of the read loop the DISCONNECTED entry
\* is appended first and the connection is released afterwards: a released
\* connection has its DISCONNECTED entry in the log, and the connection is
\* open while the entry is written.
C13_LoggedBeforeReleased ==
    \A h \in Conns :
      /\ (pc[h] # "idle" /\ ~connOpen[h]) => DisconnectLogged(h)
      /\ logEntry[h].kind = "DISCONNECTED" => connOpen[h]

\* C13 (amended): the connection is open while its DISCONNECTED entry waits
\* for the file lock and while it is written; it is released only when the
\* handler returns, and then the complete DISCONNECTED line is in the log
\* unless the writeLog call for it failed.
C13_ReleasedAfterDisconnectWrite ==
    \A h \in Conns :
      /\ logEntry[h].kind = "DISCONNECTED" => connOpen[h]
      /\ (fileLock = h /\ logFile[Len(logFile)].kind = "DISCONNECTED")
            => connOpen[h]
      /\ (pc[h] # "idle" /\ ~connOpen[h]) =>
            /\ pc[h] = "done"
            /\ DisconnectLogged(h) <=> "DISCONNECTED" \notin failed[h]
      /\ pc[h] = "returning" => connOpen[h]
      /\ pc[h] = "done" => ~connOpen[h]

\* one handler left the loop on a read error after a message, wrote its
\* DISCONNECTED line and released its connection; the other read
\* end-of-stream and is writing its DISCONNECTED entry, connection open
C13_Witness ==
    \E g, h \in Conns :
      /\ pc[g] = "done" /\ ~connOpen[g] /\ DisconnectLogged(g)
      /\ received[g] # <<>> /\ Last(received[g]) # EndOfStream
      /\ pc[h] = "writing" /\ connOpen[h]
      /\ logFile[Len(logFile)].kind = "DISCONNECTED"
      /\ received[h] # <<>> /\ Last(received[h]) = EndOfStream

\* the step in which handler h leaves the read loop through `break` or an
\* exception: the finally clause has its DISCONNECTED entry ready
LeavesLoop(h) ==
    /\ pc[h] = "read"
    /\ pc'[h] = "writeLog"
    /\ logEntry'[h].kind = "DISCONNECTED"

\* a line that consists of its terminator only
BlankRef(raw) == raw = <<"\n">>

\* C14 (as claimed): the step that receives a line ends the read loop
\* exactly when the line is end-of-stream or an explicitly empty line; a
\* line with any other content is processed or discarded and reading
\* continues.
C14_EndsOnEmptyLineOnly ==
    [][\A h \in Conns :
         Receives(h) =>
           LET raw == Last(received'[h])
           IN  /\ LeavesLoop(h) <=> (raw = EndOfStream \/ BlankRef(raw))
               /\ ~LeavesLoop(h) =>
                    /\ connOpen'[h]
                    /\ pc'[h] \in {"read", "checkRateLimit"}]_vars

\* C14 (amended): the step that receives a line ends the read loop exactly
\* when the line is end-of-stream or has nothing but whitespace; a line
\* with any other character is processed or discarded and reading continues.
C14_EndsOnWhitespaceOnly ==
    [][\A h \in Conns :
         Receives(h) =>
           LET raw == Last(received'[h])
           IN  /\ LeavesLoop(h) <=> TrimRef(raw) = <<>>
               /\ ~LeavesLoop(h) =>
                    /\ connOpen'[h]
                    /\ pc'[h] \in {"read", "checkRateLimit"}
                    /\ pc'[h] = "checkRateLimit" <=> ValidRef(raw)]_vars

\* a handler discarded a line with a no-break space for its category,
\* kept reading, and left the loop on a line of one form feed
C14_Witness ==
    \E h \in Conns :
      /\ Len(received[h]) = 2
      /\ received[h][1] = <<"a", "|", "U+00A0", "|", "m", "\n">>
      /\ received[h][2] = <<"\f", "\n">>
      /\ pc[h] = "writeLog"
      /\ logEntry[h].kind = "DISCONNECTED"
      /\ connOpen[h]

\* C15: a received line with fewer than 3 segments or with an empty field
\* among its first three trimmed fields never reaches the rate limiter: the
\* step that receives it changes no client's rate state, creates no state
\* for a new client id, starts no checkRateLimit call and leaves the log as
\* it is; unless the line ends the read loop, the handler is back at
\* reading with nothing to write.
C15_MalformedLeavesNoTrace ==
    [][\A h \in Conns :
         Receives(h) =>
           LET raw == Last(received'[h])
           IN  ~ValidRef(raw) =>
                 /\ clientRates' = clientRates
                 /\ DOMAIN clientRates' = DOMAIN clientRates
                 /\ calls' = calls
                 /\ lock' = lock
                 /\ seen' = seen
                 /\ logFile' = logFile
                 /\ pc'[h] \notin {"checkRateLimit", "checking"}
                 /\ TrimRef(raw) # <<>> =>
                      /\ pc'[h] = "read"
                      /\ logEntry'[h] = NoEntry]_vars

\* after an accepted message of client a the connection sent a line with
\* client id z and an empty category: the handler is reading again, only a
\* has rate state, and the log holds nothing written for z
C15_Witness ==
    \E h \in Conns :
      /\ Len(received[h]) = 2
      /\ received[h][2] = <<"z", "|", " ", "|", "m", "\n">>
      /\ pc[h] = "read"
      /\ clientId[h] = <<"z">>
      /\ DOMAIN clientRates = {<<"a">>}
      /\ DOMAIN calls = {<<"a">>}
      /\ \A i \in 1..Len(logFile) :
           logFile[i].kind # "NEWLINE" => logFile[i].clientId # <<"z">>
      /\ EntriesOf(h, "MESSAGE") # {}

\* handler g, or the acceptor on behalf of connection g, can take its next
\* step unless a handler outside the set `stalled` holds the lock it needs
Unhindered(g, stalled) ==
    /\ (pc[g] = "idle" /\ g <= nconns /\ \A k \in 1..(g - 1) : pc[k] # "idle")
          => ENABLED start(g)
    /\ pc[g] = "checkRateLimit" =>
          \/ ENABLED checkRateLimitEnter(g)
          \/ lock \in Conns \ stalled
    /\ pc[g] = "checking" => ENABLED checkRateLimitExit(g)
    /\ pc[g] = "writeLog" =>
          \/ ENABLED writeLogEnter(g)
          \/ fileLock \in Conns \ stalled
    /\ pc[g] = "writing" => ENABLED writeLogExit(g)
    /\ pc[g] = "returning" => ENABLED handleClientReturn(g)

\* C16: a handler that waits for the next line of its connection holds
\* neither the rate-limiter lock nor the file lock, and with any handlers
\* waiting for lines every other handler can go on with its rate check or
\* its log append and the acceptor can start the handler of the next
\* connection.
C16_ReaderHoldsNoLock ==
    LET readers == {h \in Conns : pc[h] = "read"}
    IN  /\ \A h \in readers : lock # h /\ fileLock # h
        /\ \A g \in Conns \ readers : Unhindered(g, readers)

\* the client of connection 1 has sent nothing since it connected and its
\* handler waits for a line; connection 2 was accepted after it, had a
\* message rate-checked and logged, and its handler has returned
C16_Witness ==
    /\ pc[1] = "read"
    /\ received[1] = <<>>
    /\ pc[2] = "done"
    /\ EntriesOf(2, "MESSAGE") # {}
    /\ DisconnectLogged(2)
    /\ clientRates # <<>>

\* ---- bursts of accepted calls ----
\* the accepted calls among the i-th to the j-th call of a history
AcceptedBetween(hist, i, j) == {k \in i..j : hist[k].ok}

\* accepted calls i and j of a history lie less than the window apart and
\* more than `limit` calls were accepted from the one to the other
Burst(hist, i, j, limit) ==
    /\ i < j
    /\ hist[i].ok /\ hist[j].ok
    /\ hist[j].t - hist[i].t < Window
    /\ Cardinality(AcceptedBetween(hist, i, j)) > limit

\* C17: the window restarts instead of sliding.  More than L accepted
\* calls of one client within a span shorter than W do occur (the witness),
\* and whenever they do, the window restarted between the first and the
\* last of them: the last lies more than W after the start of the window
\* of the first, and each of the two windows has at most L of them.
C17_BurstStraddlesRestart ==
    rateLimit >= 1 =>
      \A c \in DOMAIN calls :
        \A i, j \in 1..Len(calls[c]) :
          Burst(calls[c], i, j, rateLimit) =>
            LET hist == calls[c]
                wi == WindowOf(hist, i)
                wj == WindowOf(hist, j)
            IN  /\ wi < wj
                /\ hist[wj].ok
                /\ hist[wj].t - hist[wi].t > Window
                /\ Cardinality({k \in AcceptedBetween(hist, i, j) :
                                   WindowOf(hist, k) = wi}) <= rateLimit
                /\ Cardinality({k \in AcceptedBetween(hist, i, j) :
                                   WindowOf(hist, k) = wj}) <= rateLimit

\* with L = 2 a client was accepted at tick 0 and again at the last tick of
\* that window, then twice one tick later in the restarted window: three
\* calls accepted within one tick, half the window
C17_Witness ==
    /\ rateLimit = 2
    /\ \E c \in DOMAIN calls :
         /\ Len(calls[c]) = 4
         /\ Burst(calls[c], 2, 4, rateLimit)
         /\ calls[c][4].t - calls[c][2].t = 1
         /\ calls[c][3].ok
         /\ WindowOf(calls[c], 2) = 1
         /\ WindowOf(calls[c], 4) = 3
         /\ clientRates[c] = <<calls[c][3].t, 2>>

\* C18: for a limit L >= 1, under a clock that never runs backward, the
\* calls of one client accepted within any closed interval of length at
\* most W number at most 2L - 1.
C18_AtMostTwiceLimitLessOne ==
    rateLimit >= 1 =>
      \A c \in DOMAIN calls :
        /\ \A k \in 1..(Len(calls[c]) - 1) : calls[c][k].t <= calls[c][k + 1].t
        /\ \A i, j \in 1..Len(calls[c]) :
             (i <= j /\ calls[c][j].t - calls[c][i].t <= Window) =>
               Cardinality(AcceptedBetween(calls[c], i, j)) <= 2 * rateLimit - 1

\* the bound is attained for L = 2: after the call that started the window
\* at tick 0 a client was accepted at tick 1 and twice at tick 3, three
\* accepted calls in a closed interval of exactly the window's length
C18_Witness ==
    /\ rateLimit = 2
    /\ \E c \in DOMAIN calls :
         /\ Len(calls[c]) = 4
         /\ calls[c][1].t = 0
         /\ calls[c][2].t = calls[c][4].t - Window
         /\ calls[c][2].t > 0
         /\ Cardinality(AcceptedBetween(calls[c], 2, 4)) = 2 * rateLimit - 1
         /\ Cardinality(AcceptedBetween(calls[c], 1, 4)) = 2 * rateLimit

\* ---- the entries of one connection, in the order of the log ----
IsOwnEntry(e, h) == e.kind # "NEWLINE" /\ e.conn = h

OwnEntries(h) == SelectSeq(logFile, LAMBDA e : IsOwnEntry(e, h))

\* the lines the message entries of a sequence of entries were parsed from
RECURSIVE SourcesOf(_)
SourcesOf(es) ==
    IF es = <<>> THEN <<>>
    ELSE IF Head(es).kind = "MESSAGE"
         THEN <<Head(es).src>> \o SourcesOf(Tail(es))
         ELSE SourcesOf(Tail(es))

\* a can be obtained from b by leaving elements out, order kept
RECURSIVE IsSubSeq(_, _)
IsSubSeq(a, b) ==
    IF a = <<>> THEN TRUE
    ELSE IF b = <<>> THEN FALSE
    ELSE IF Head(a) = Head(b) THEN IsSubSeq(Tail(a), Tail(b))
    ELSE IsSubSeq(a, Tail(b))

\* C19: among the entries of one connection in the log, CONNECTED comes
\* before every message entry, the message entries follow the order in
\* which their lines were received, the newest being the line received
\* last when it is written, and DISCONNECTED comes after all of them,
\* whatever the other handlers write in between.
C19_ConnectionOrder ==
    \A h \in Conns :
      LET es == OwnEntries(h)
      IN  /\ \A k \in 1..Len(es) :
               /\ es[k].kind = "CONNECTED" => k = 1
               /\ es[k].kind = "MESSAGE" => k > 1 /\ es[1].kind = "CONNECTED"
               /\ es[k].kind = "DISCONNECTED" => k = Len(es)
          /\ IsSubSeq(SourcesOf(es), received[h])
          /\ (pc[h] = "writing" /\ logEntry[h].kind = "MESSAGE") =>
                es[Len(es)].src = Last(received[h])

\* both connections sent two different messages and closed; every entry
\* was written, and the message entries of the two alternate in the log
C19_Witness ==
    /\ pc[1] = "done" /\ pc[2] = "done"
    /\ \A h \in Conns :
         /\ Len(OwnEntries(h)) = 4
         /\ OwnEntries(h)[2].src # OwnEntries(h)[3].src
         /\ OwnEntries(h)[4].kind = "DISCONNECTED"
    /\ \E i, j, k, l \in 1..Len(logFile) :
         /\ i < j /\ j < k /\ k < l
         /\ logFile[i].kind = "MESSAGE" /\ logFile[i].conn = 1
         /\ logFile[j].kind = "MESSAGE" /\ logFile[j].conn = 2
         /\ logFile[k].kind = "MESSAGE" /\ logFile[k].conn = 1
         /\ logFile[l].kind = "MESSAGE" /\ logFile[l].conn = 2

\* the last line handler h received ended its read loop
EndSeen(h) ==
    /\ received[h] # <<>>
    /\ TrimRef(Last(received[h])) = <<>>

\* handler h has returned with its complete DISCONNECTED line in the log,
\* or the writeLog call for that line failed
Finished(h) ==
    /\ pc[h] = "done"
    /\ fileLock # h
    /\ DisconnectLogged(h) \/ "DISCONNECTED" \in failed[h]

\* C20: under fair thread scheduling every handler whose client reached
\* end-of-stream or sent a blank line eventually takes the file lock,
\* appends its DISCONNECTED entry and returns, unless the writeLog call for
\* that entry fails; this needs no step of any client and no progress of a
\* handler that waits for a line.
C20_EndOfStreamTerminates ==
    \A h \in Conns : EndSeen(h) ~> Finished(h)

\* connection 2 was accepted and has sent nothing; handler 1 read
\* end-of-stream after that, wrote its DISCONNECTED line and returned
\* while handler 2 still waits for its first line
C20_Witness ==
    /\ pc[2] = "read" /\ received[2] = <<>>
    /\ EndSeen(1)
    /\ pc[1] = "done"
    /\ failed[1] = {}
    /\ \E i \in EntriesOf(2, "CONNECTED") :
         \E j \in EntriesOf(1, "DISCONNECTED") : i < j
    /\ DisconnectLogged(1)

====
